---- MODULE Spec2Model ----
(***************************************************************************)
(* UrlControl (helmcharts/camcom-sender/static/url_control.js): an object  *)
(* that mirrors map view state into the page URL through a debounced       *)
(* history.replaceState.                                                   *)
(*                                                                         *)
(* The JavaScript object is a function from property names to values, the  *)
(* arrays it refers to live in a heap (push mutates in place, filter       *)
(* allocates), the page URL is its searchParams map, and the timer queue   *)
(* of the window is a set of pending callbacks that carry the URL their    *)
(* closure captured.                                                       *)
(***************************************************************************)
EXTENDS Integers, Sequences, FiniteSets, TLC

(***************************************************************************)
(* Bounds of the model.                                                    *)
(***************************************************************************)
\* setTimeout handles are 1..MaxTimers: at most MaxTimers history updates
\* are requested in one behaviour.
MaxTimers == 2
\* Time advances in steps of TickStep time units.
TickStep == 150

\* The delay of the debounce (url_control.js line 53).
Delay == 300

(***************************************************************************)
(* JavaScript values.                                                      *)
(***************************************************************************)
Undefined == [t |-> "undefined"]
Null == [t |-> "null"]
Num(n) == [t |-> "number", n |-> n]
Str(s) == [t |-> "string", s |-> s]
Arr(r) == [t |-> "array", r |-> r]
Fn(name) == [t |-> "function", f |-> name]

IsArr(v) == v.t = "array"

\* The four keys the controller reads and writes (lines 7-10 and 46).
Reserved == {"lat", "lon", "zoom", "base"}

\* Property names of the object that the model tracks: the four view fields,
\* the timer handle, two dynamically named fields, and the method that every
\* mutator calls through `this`.
Props == Reserved \cup {"timeout", "layers", "tags", "_change_history"}

\* The process-wide default base layer read at line 10.
default_base_layer == Str("osm")

(***************************************************************************)
(* Conversions.                                                            *)
(***************************************************************************)
Digits == <<"0", "1", "2", "3", "4", "5", "6", "7", "8", "9">>

RECURSIVE NatToString(_)
NatToString(n) ==
    IF n < 10 THEN Digits[n + 1]
    ELSE NatToString(n \div 10) \o Digits[(n % 10) + 1]

\* Number.prototype.toString for the integers of the model.
NumToString(n) == IF n < 0 THEN "-" \o NatToString(0 - n) ELSE NatToString(n)

\* Array.prototype.join(",") of an array of strings.
RECURSIVE Join(_)
Join(l) ==
    IF l = <<>> THEN ""
    ELSE IF Len(l) = 1 THEN l[1]
    ELSE l[1] \o "," \o Join(Tail(l))

\* ToString of the language, as URLSearchParams.set applies it to its value (line 47).
JSToString(v, h) ==
    CASE v.t = "undefined" -> "undefined"
      [] v.t = "null" -> "null"
      [] v.t = "number" -> NumToString(v.n)
      [] v.t = "string" -> v.s
      [] v.t = "array" -> Join(h[v.r])

\* ToBoolean, as the operator || applies it (lines 7-10).
Truthy(v) ==
    CASE v.t = "undefined" -> FALSE
      [] v.t = "null" -> FALSE
      [] v.t = "number" -> v.n # 0
      [] v.t = "string" -> v.s # ""
      [] OTHER -> TRUE

\* a ?? b: only null and undefined give way to the default.
OrNullish(a, b) == IF a.t \in {"undefined", "null"} THEN b ELSE a

\* a || b
Or(a, b) == IF Truthy(a) THEN a ELSE b

\* The strings that are a prefix or a suffix of a string value of the model.
Fragments == {"", "x", "y", "xy", "5", "3", "osm", "os", "o", "sm", "m"}

\* String.prototype.includes(v) for a string v.
StrIncludes(s, v) == \E p, q \in Fragments : p \o v \o q = s

\* A search that looks at the first element only.
ArrIncludesFirst(l, v) == l # <<>> /\ l[1] = v

\* Array.prototype.includes(v).
ArrIncludes(l, v) == \E i \in 1..Len(l) : l[i] = v

\* Array.prototype.filter(item => item !== value).
RECURSIVE Filter(_, _)
Filter(l, value) ==
    IF l = <<>> THEN <<>>
    ELSE IF Head(l) # value THEN <<Head(l)>> \o Filter(Tail(l), value)
    ELSE Filter(Tail(l), value)

\* The number a timer handle converts to when it is handed to clearTimeout:
\* a number is itself, a string that spells a handle is that handle, an array
\* converts through its join, everything else is NaN or 0 and names no timer.
HandleOfString(s) ==
    IF \E n \in 1..MaxTimers : NatToString(n) = s
    THEN CHOOSE n \in 1..MaxTimers : NatToString(n) = s
    ELSE 0

ToHandle(v, h) ==
    CASE v.t = "number" -> v.n
      [] v.t = "string" -> HandleOfString(v.s)
      [] v.t = "array" -> HandleOfString(Join(h[v.r]))
      [] OTHER -> 0

(***************************************************************************)
(* State.                                                                  *)
(***************************************************************************)
VARIABLES
    this,       \* the UrlControl object: property name -> value
    heap,       \* the arrays the object refers to: reference -> sequence
    location,   \* window.location: query key -> string, for the keys present
    timers,     \* the window's pending setTimeout callbacks
    nextId,     \* the handle the next setTimeout returns
    called,     \* the mutator called most recently ("" before the first call)
    thrown,     \* whether that call ended in a TypeError
    lastReq,    \* the string forms of the four fields at the most recent _change_history
    sinceCall,  \* time since the most recent history-triggering call, up to Delay
    burstWrites, \* URL writes since the current burst of such calls began
    entries,    \* window.history: the URLs of the session history, the current one last
    random,     \* the value Math.random() returns, in units of 2^-RandomBits
    color       \* what randomClusterColor returned (null before it is called)

vars == <<this, heap, location, timers, nextId, called, thrown, lastReq, sinceCall,
          burstWrites, entries, random, color>>

\* URLSearchParams.get(key): the value, or null when the key is absent.
Get(loc, key) == IF key \in DOMAIN loc THEN Str(loc[key]) ELSE Null

\* An object as `new UrlControl` hands it to the constructor body: no own
\* property, the methods of the class on its prototype.
Prototype ==
    [p \in Props |-> IF p = "_change_history" THEN Fn("_change_history") ELSE Undefined]

\* The constructor body, lines 5-12.
NewUrlControl(loc, default_lat, default_lon, default_zoom) ==
    [Prototype EXCEPT
        !["lat"] = Or(Get(loc, "lat"), Num(default_lat)),
        !["lon"] = Or(Get(loc, "lon"), Num(default_lon)),
        !["zoom"] = Or(Get(loc, "zoom"), Num(default_zoom)),
        !["base"] = Or(Get(loc, "base"), default_base_layer),
        !["timeout"] = Null]

(***************************************************************************)
(* The heap of arrays.                                                     *)
(***************************************************************************)
\* The reference a newly created array gets: the least one not in use.
NewRef(hp) == CHOOSE r \in 1..(Cardinality(DOMAIN hp) + 1) :
                 /\ r \notin DOMAIN hp
                 /\ \A q \in 1..(r - 1) : q \in DOMAIN hp

\* The heap with a newly created array l.
Alloc(hp, l) == [r \in DOMAIN hp \cup {NewRef(hp)} |-> IF r \in DOMAIN hp THEN hp[r] ELSE l]

\* The arrays still referred to by the object: the others are garbage.
Collect(obj, hp) ==
    [r \in {obj[p].r : p \in {q \in Props : IsArr(obj[q])}} |-> hp[r]]

(***************************************************************************)
(* What callers pass.  An argument is a scalar, a newly built array, or    *)
(* the array that a property of the controller currently holds.            *)
(***************************************************************************)
ScalarArg(v) == [k |-> "value", v |-> v]
ArrayArg(l) == [k |-> "array", l |-> l]
HeldArg(p) == [k |-> "held", p |-> p]

\* An argument can be passed: the property it names holds an array.
Passable(a) == a.k = "held" => IsArr(this[a.p])

ArgValue(a, hp) ==
    CASE a.k = "value" -> a.v
      [] a.k = "array" -> Arr(NewRef(hp))
      [] a.k = "held" -> this[a.p]

ArgHeap(a, hp) == IF a.k = "array" THEN Alloc(hp, a.l) ELSE hp

HasDup(l) == \E i, j \in 1..Len(l) : i < j /\ l[i] = l[j]

\* The argument is a list in which some value occurs twice.
ArgHasDup(a) ==
    CASE a.k = "value" -> FALSE
      [] a.k = "array" -> HasDup(a.l)
      [] a.k = "held" -> HasDup(heap[this[a.p].r])

(***************************************************************************)
(* The window: timers and the page URL.                                    *)
(***************************************************************************)
Min(a, b) == IF a < b THEN a ELSE b
\* A maximum that never goes below one: a delay cut this way never elapses.
MaxAboveZero(a, b) == IF b > 1 THEN b ELSE 1

Max(a, b) == IF a > b THEN a ELSE b

\* window.history.pushState(state, title, url): a new entry after the
\* current one.
pushState(h, url) == Append(h, url)

\* window.history.replaceState(state, title, url), line 52: the URL of the
\* current entry is replaced, the stack keeps its length.
replaceState(h, url) == [h EXCEPT ![Len(h)] = url]

\* clearTimeout(handle): the pending callback with that handle, if any, is
\* removed (line 50).
clearTimeout(tm, handle) == {t \in tm : t.id # handle}

\* A setTimeout that returns a handle and schedules nothing.
setTimeoutDropped(tm, id, url) == tm

\* setTimeout(callback, 300): one more pending callback; its closure holds
\* current_url (lines 51-53).
setTimeout(tm, id, url) == tm \cup {[id |-> id, rem |-> Delay, url |-> url]}

\* A loop over three of the four keys: zoom keeps the value of the URL.
SerializeNoZoom(obj, hp, loc) ==
    [k \in DOMAIN loc \cup Reserved |->
        IF k \in Reserved \ {"zoom"} THEN JSToString(obj[k], hp)
        ELSE IF k \in DOMAIN loc THEN loc[k] ELSE ""]

\* new URL(window.location.href) with searchParams.set(p, this[p]) for the
\* four keys (lines 44-48).
Serialize(obj, hp, loc) ==
    [k \in DOMAIN loc \cup Reserved |->
        IF k \in Reserved THEN JSToString(obj[k], hp) ELSE loc[k]]

\* The body of _change_history (lines 43-54), run on the object obj that the
\* calling mutator has produced.
change_history_body(obj, hp) ==
    LET current_url == Serialize(obj, hp, location) IN
    /\ nextId <= MaxTimers
    /\ timers' = setTimeout(clearTimeout(timers, ToHandle(obj["timeout"], hp)),
                            nextId, current_url)
    /\ this' = [obj EXCEPT !["timeout"] = Num(nextId)]
    /\ heap' = Collect([obj EXCEPT !["timeout"] = Num(nextId)], hp)
    /\ nextId' = nextId + 1
    /\ lastReq' = [k \in Reserved |-> JSToString(obj[k], hp)]
    /\ thrown' = FALSE

\* A TypeError leaves the call: the object stays as the statements before the
\* failing one left it, and nothing is scheduled.
Throw(obj, hp) ==
    /\ this' = obj
    /\ heap' = Collect(obj, hp)
    /\ thrown' = TRUE
    /\ UNCHANGED <<timers, nextId, lastReq>>

\* this._change_history(): the property is looked up on the object, where an
\* assignment this[param] = value may have put something that is no function.
_change_history(obj, hp) ==
    IF obj["_change_history"].t = "function"
    THEN change_history_body(obj, hp)
    ELSE Throw(obj, hp)

\* A history-triggering call begins: it continues the current burst when it
\* comes before Delay has elapsed since the previous one, and starts a new
\* burst otherwise.
NoteCall ==
    /\ burstWrites' = IF sinceCall < Delay THEN burstWrites ELSE 0
    /\ sinceCall' = 0

(***************************************************************************)
(* The mutators.                                                           *)
(***************************************************************************)
\* remove_from_list(param, value), lines 15-22.  this[param].includes is
\* Array.prototype.includes on an array and String.prototype.includes on a
\* string; on anything else the call at line 16 is a TypeError, and so is
\* filter (line 17) on a string.
remove_from_list(param, value) ==
    LET v == this[param] IN
    /\ called' = "remove_from_list"
    /\ NoteCall
    /\ UNCHANGED <<location, entries, random, color>>
    /\ CASE v.t = "array" ->
              IF ArrIncludes(heap[v.r], value)
              THEN _change_history([this EXCEPT ![param] = Arr(NewRef(heap))],
                                   Alloc(heap, Filter(heap[v.r], value)))
              ELSE _change_history(this, heap)
         [] v.t = "string" ->
              IF StrIncludes(v.s, value)
              THEN Throw(this, heap)
              ELSE _change_history(this, heap)
         [] OTHER -> Throw(this, heap)

\* add_to_list(param, value), lines 24-29.  push (line 26) changes the array
\* in place, for every property that holds it; on a string it is a TypeError.
add_to_list(param, value) ==
    LET v == this[param] IN
    /\ called' = "add_to_list"
    /\ NoteCall
    /\ UNCHANGED <<location, entries, random, color>>
    /\ CASE v.t = "array" ->
              IF ~ArrIncludes(heap[v.r], value)
              THEN _change_history(this, [heap EXCEPT ![v.r] = Append(@, value)])
              ELSE _change_history(this, heap)
         [] v.t = "string" ->
              IF ~StrIncludes(v.s, value)
              THEN Throw(this, heap)
              ELSE _change_history(this, heap)
         [] OTHER -> Throw(this, heap)

\* change_param(param, value, change_history = true), lines 31-34.
change_param(param, a, change_history) ==
    LET obj == [this EXCEPT ![param] = ArgValue(a, heap)]
        hp == ArgHeap(a, heap)
    IN
    /\ Passable(a)
    /\ called' = "change_param"
    /\ IF change_history
       THEN NoteCall /\ _change_history(obj, hp)
       ELSE /\ this' = obj
            /\ heap' = Collect(obj, hp)
            /\ thrown' = FALSE
            /\ UNCHANGED <<timers, nextId, lastReq, sinceCall, burstWrites>>
    /\ UNCHANGED <<location, entries, random, color>>

\* The loop of change_params, lines 37-39, over the entries of params in
\* their order: each entry is <<name, argument>>.
RECURSIVE AssignAll(_, _, _)
AssignAll(obj, hp, params) ==
    IF params = <<>> THEN [obj |-> obj, hp |-> hp]
    ELSE AssignAll([obj EXCEPT ![params[1][1]] = ArgValue(params[1][2], hp)],
                   ArgHeap(params[1][2], hp), Tail(params))

\* change_params(params), lines 36-41.
change_params(params) ==
    LET r == AssignAll(this, heap, params) IN
    /\ \A i \in 1..Len(params) : Passable(params[i][2])
    /\ called' = "change_params"
    /\ NoteCall
    /\ _change_history(r.obj, r.hp)
    /\ UNCHANGED <<location, entries, random, color>>

(***************************************************************************)
(* The window's steps.                                                     *)
(***************************************************************************)
\* The callback of line 52 runs: of the callbacks whose delay has elapsed,
\* the one scheduled first.  replaceState installs the URL of its closure.
TimerFires ==
    \E t \in timers :
        /\ t.rem = 0
        /\ \A u \in timers : u.rem = 0 => t.id <= u.id
        /\ entries' = replaceState(entries, t.url)
        /\ location' = entries'[Len(entries')]
        /\ timers' = timers \ {t}
        /\ burstWrites' = Min(2, burstWrites + 1)
        /\ UNCHANGED <<this, heap, nextId, called, thrown, lastReq, sinceCall,
                       random, color>>

\* TickStep time units pass.
Tick ==
    /\ \/ \E t \in timers : t.rem > 0
       \/ sinceCall < Delay
    /\ timers' = {[t EXCEPT !.rem = Max(0, t.rem - TickStep)] : t \in timers}
    /\ sinceCall' = Min(Delay, sinceCall + TickStep)
    /\ UNCHANGED <<this, heap, location, nextId, called, thrown, lastReq,
                   burstWrites, entries, random, color>>

\* Other code of the page, or the user, changes a query parameter that is
\* none of the four: window.location is global, and line 44 reads it anew
\* at every request.
OtherValues == {"a", "b"}

external_replaceState ==
    \E v \in OtherValues :
        /\ v # location["q"]
        /\ location' = [location EXCEPT !["q"] = v]
        /\ entries' = replaceState(entries, location')
        /\ UNCHANGED <<this, heap, timers, nextId, called, thrown, lastReq,
                       sinceCall, burstWrites, random, color>>

(***************************************************************************)
(* Spec: the controller after construction, under calls that change the    *)
(* view fields, the timer handle and the method, with time passing and the *)
(* URL changed from outside.  No field holds an array here: the list       *)
(* mutators meet strings, numbers and unset fields.                        *)
(***************************************************************************)
\* The query string the page is loaded with.
InitUrls == { [lat |-> "5", zoom |-> "3", q |-> "a"] }

\* The names that callers pass as `param` to the list mutators, and the
\* values they pass.
ParamNames == {"lat", "layers", "timeout"}
Items == {"x"}

\* The (param, value) pairs that callers pass to change_param.
ParamArgs ==
    {<<"lat", ScalarArg(Num(10))>>,
     <<"timeout", ScalarArg(Num(10))>>,
     <<"_change_history", ScalarArg(Num(10))>>}

\* The objects that callers pass to change_params.
ParamMaps ==
    { <<>>,
      << <<"lat", ScalarArg(Num(10))>>, <<"zoom", ScalarArg(Num(5))>> >>,
      << <<"timeout", ScalarArg(Null)>> >> }

\* The session history holds the page visited before and the current page.
PreviousEntries == << [q |-> "b"] >>

InitWith(urls) ==
    /\ location \in urls
    /\ entries = Append(PreviousEntries, location)
    /\ random = 0
    /\ color = Null
    /\ this = NewUrlControl(location, 0, 0, 1)
    /\ heap = <<>>
    /\ timers = {}
    /\ nextId = 1
    /\ called = ""
    /\ thrown = FALSE
    /\ lastReq = <<>>
    /\ sinceCall = Delay
    /\ burstWrites = 0

Init == InitWith(InitUrls)

Next ==
    \/ \E p \in ParamNames, v \in Items : remove_from_list(p, v)
    \/ \E p \in ParamNames, v \in Items : add_to_list(p, v)
    \/ \E pa \in ParamArgs, c \in BOOLEAN : change_param(pa[1], pa[2], c)
    \/ \E m \in ParamMaps : change_params(m)
    \/ TimerFires
    \/ Tick
    \/ external_replaceState

Spec == Init /\ [][Next]_vars

\* SpecLive: the calls that assign fields, under the scheduling of the window: time
\* does not stop while a callback is waiting, and a callback whose delay has
\* elapsed is run.
NextLive ==
    \/ \E pa \in ParamArgs, c \in BOOLEAN : change_param(pa[1], pa[2], c)
    \/ \E m \in ParamMaps : change_params(m)
    \/ TimerFires
    \/ Tick

SpecLive == Init /\ [][NextLive]_vars /\ WF_vars(Tick) /\ WF_vars(TimerFires)

(***************************************************************************)
(* SpecLists: the same controller under calls that build, share and        *)
(* change list-valued fields.                                              *)
(***************************************************************************)
ListNames == {"layers", "tags"}
ListItems == {"x", "y"}

\* The arrays that callers build: one with a repeated element, one with
\* three distinct elements; a string; the array another field holds; and a
\* value for the name under which the controller keeps its timer handle.
ListArgs ==
    {<<"layers", ArrayArg(<<"x", "x">>)>>,
     <<"layers", ArrayArg(<<"x", "z", "y">>)>>,
     <<"layers", ScalarArg(Str("xy"))>>,
     <<"tags", HeldArg("layers")>>,
     <<"timeout", ScalarArg(Num(10))>>}

ListMaps ==
    { << <<"layers", ArrayArg(<<"y">>)>>, <<"tags", ArrayArg(<<"y", "y">>)>> >> }

NextLists ==
    \/ \E p \in ListNames, v \in ListItems : remove_from_list(p, v)
    \/ \E p \in ListNames, v \in ListItems : add_to_list(p, v)
    \/ \E pa \in ListArgs, c \in BOOLEAN : change_param(pa[1], pa[2], c)
    \/ \E m \in ListMaps : change_params(m)
    \/ TimerFires
    \/ Tick

SpecLists == Init /\ [][NextLists]_vars

(***************************************************************************)
(* SpecShadow: the list mutators on a controller whose callers also store  *)
(* a value under the name of the method that every mutator calls.          *)
(***************************************************************************)
ShadowArgs ==
    {<<"layers", ArrayArg(<<"y">>)>>,
     <<"tags", ArrayArg(<<"x", "y">>)>>,
     <<"_change_history", ScalarArg(Num(10))>>}

NextShadow ==
    \/ \E p \in ListNames, v \in ListItems : remove_from_list(p, v)
    \/ \E p \in ListNames, v \in ListItems : add_to_list(p, v)
    \/ \E pa \in ShadowArgs, c \in BOOLEAN : change_param(pa[1], pa[2], c)
    \/ TimerFires
    \/ Tick

SpecShadow == Init /\ [][NextShadow]_vars

(***************************************************************************)
(* SpecNew: construction, from every query string over a few values and    *)
(* every choice of defaults.                                               *)
(***************************************************************************)
\* The values a key of the query string has when it is present.
UrlValues == {"", "0", "5"}

\* Every query string in which each of the four keys is absent or has one
\* of these values.
AllUrls == UNION {[present -> UrlValues] : present \in SUBSET Reserved}

\* The defaults the page passes to the constructor.
DefaultNums == {0, 1}

\* new UrlControl(default_lat, default_lon, default_zoom), lines 4-13.
constructor(default_lat, default_lon, default_zoom) ==
    /\ this = Prototype
    /\ this' = NewUrlControl(location, default_lat, default_lon, default_zoom)
    /\ UNCHANGED <<heap, location, timers, nextId, called, thrown, lastReq,
                   sinceCall, burstWrites, entries, random, color>>

InitNew ==
    /\ location \in AllUrls
    /\ entries = Append(PreviousEntries, location)
    /\ random = 0
    /\ color = Null
    /\ this = Prototype
    /\ heap = <<>>
    /\ timers = {}
    /\ nextId = 1
    /\ called = ""
    /\ thrown = FALSE
    /\ lastReq = <<>>
    /\ sinceCall = Delay
    /\ burstWrites = 0

NextNew ==
    \E default_lat, default_lon, default_zoom \in DefaultNums :
        constructor(default_lat, default_lon, default_zoom)

SpecNew == InitNew /\ [][NextNew]_vars

(***************************************************************************)
(* SpecColors: the cluster colours (lines 57-74).  Math.random() returns a *)
(* floating-point number in [0, 1); the product with the length of the     *)
(* array is rounded to the precision of the number format before           *)
(* Math.floor is applied.                                                  *)
(***************************************************************************)
map_detections_clusters_colors ==
    <<"#46ff00", "#02750c", "#e400ff", "#fa67e6", "#ff0000", "#881b1b", "#ffff00">>

\* The number format has RandomBits bits of significand, and Math.random()
\* returns a multiple of 2^-RandomBits.
RandomBits == 8

RECURSIVE Pow2(_)
Pow2(n) == IF n = 0 THEN 1 ELSE 2 * Pow2(n - 1)

\* The values of Math.random(), in units of 2^-RandomBits: 0 included, 1 not.
Randoms == 0..(Pow2(RandomBits) - 1)

\* The number of bits of a natural number.
RECURSIVE BitLength(_)
BitLength(n) == IF n = 0 THEN 0 ELSE 1 + BitLength(n \div 2)

\* A number, in units of 2^-RandomBits, rounded to RandomBits significant
\* bits, to nearest and to even on a tie: what the number format keeps of an
\* exact result.
RoundToFormat(n) ==
    LET s == BitLength(n) - RandomBits IN
    IF s <= 0 THEN n
    ELSE LET unit == Pow2(s)
             q == n \div unit
             r == n % unit
             up == 2 * r > unit \/ (2 * r = unit /\ q % 2 = 1)
         IN (IF up THEN q + 1 ELSE q) * unit

\* arr.length * Math.random(), line 69.
Times(length, r) == RoundToFormat(length * r)

\* Math.round of a number in units of 2^-RandomBits.
RoundNearest(x) == (2 * x + Pow2(RandomBits)) \div (2 * Pow2(RandomBits))

\* Math.floor of a number in units of 2^-RandomBits, line 69.
Floor(x) == x \div Pow2(RandomBits)

\* The index that randomChoice computes, line 69.
Index(arr, r) == Floor(Times(Len(arr), r))

\* randomChoice(arr), lines 68-70, when Math.random() returns r: an index
\* outside the array reads undefined.
randomChoice(arr, r) ==
    IF Index(arr, r) + 1 \in DOMAIN arr THEN Str(arr[Index(arr, r) + 1]) ELSE Undefined

\* randomClusterColor(), lines 72-74.
randomClusterColor ==
    \E r \in Randoms :
        /\ random' = r
        /\ color' = randomChoice(map_detections_clusters_colors, r)
        /\ UNCHANGED <<this, heap, location, timers, nextId, called, thrown, lastReq,
                       sinceCall, burstWrites, entries>>

NextColors == randomClusterColor

SpecColors == Init /\ [][NextColors]_vars

(***************************************************************************)
(* The claims.                                                             *)
(***************************************************************************)
\* The URL carries, for each of the four keys, the string form of the field.
Mirrored ==
    \A k \in Reserved :
        k \in DOMAIN location /\ location[k] = JSToString(this[k], heap)

\* A write is scheduled by the step, and every write that was pending before
\* the step is cancelled.
OneScheduled ==
    /\ Cardinality(timers') = 1
    /\ \A t \in timers' : t.id = nextId /\ t.rem = Delay

\* C1: in a burst of history-triggering calls, each less than 300 time units
\* after the previous one, exactly one URL write happens, and it writes the
\* values the four fields have after the last call of the burst.  Stated of
\* every write: it is the first of its burst and it installs those values.
C1_OneWritePerBurst ==
    [][TimerFires =>
          /\ burstWrites = 0
          /\ \A k \in Reserved : location'[k] = lastReq[k]]_vars

\* C2: in every reachable state at most one write callback is pending,
\* whatever field names and values the calls are given.
C2_AtMostOnePending == Cardinality(timers) <= 1

\* C3 as claimed: once a mutator call has changed one of the four fields, in
\* every state where no write is pending the URL's values for lat, lon, zoom
\* and base are the controller's current values.
C3_MirroredWhenIdle ==
    (/\ \E u \in InitUrls, k \in Reserved : this[k] # NewUrlControl(u, 0, 0, 1)[k]
     /\ timers = {})
        => Mirrored

\* C3 as amended: in every state where no write is pending, a history update
\* has been requested, and the four fields have the values they had at the
\* most recent history-update request, the URL's values for lat, lon, zoom
\* and base are the string forms of the controller's current values.
C3_MirroredAfterRequest ==
    (/\ timers = {}
     /\ lastReq # <<>>
     /\ \A k \in Reserved : JSToString(this[k], heap) = lastReq[k])
        => Mirrored

\* A committed change is mirrored: lat was set to 10, zoom to 5, the write has
\* run and nothing is pending.
W3_ChangeMirrored ==
    /\ timers = {}
    /\ lastReq # <<>>
    /\ this["lat"] = Num(10)
    /\ this["zoom"] = Num(5)
    /\ location["lat"] = "10"
    /\ location["zoom"] = "5"

\* No list-valued field contains a value twice.
NoDupAll == \A p \in Props : IsArr(this[p]) => ~HasDup(heap[this[p].r])

\* The step is a change_param or change_params call that is handed a list in
\* which a value occurs twice.
GivenDup ==
    \/ \E pa \in ListArgs \cup ParamArgs, c \in BOOLEAN :
          /\ Passable(pa[2])
          /\ ArgHasDup(pa[2])
          /\ change_param(pa[1], pa[2], c)
    \/ \E m \in ListMaps \cup ParamMaps :
          /\ \A i \in 1..Len(m) : Passable(m[i][2])
          /\ \E i \in 1..Len(m) : ArgHasDup(m[i][2])
          /\ change_params(m)

\* C4 as claimed: in every reachable state every list-valued field contains
\* no value twice.
C4_NoDuplicates == NoDupAll

\* C4 as amended: a list-valued field comes to contain a value twice only in
\* a setParam or setParams call that is given a list which contains it twice;
\* addToList and removeFromList never make a duplicate-free list repeat a value.
C4_DuplicatesOnlyGiven == [][(NoDupAll /\ ~NoDupAll') => GivenDup]_vars

\* addToList has appended to a list: layers was given as ["y"] and holds
\* ["y", "x"], no value twice.
W4_Appended ==
    /\ IsArr(this["layers"])
    /\ heap[this["layers"].r] = <<"y", "x">>
    /\ ~thrown

\* The default that construction uses for a key.
DefaultOf(k, default_lat, default_lon, default_zoom) ==
    CASE k = "lat" -> Num(default_lat)
      [] k = "lon" -> Num(default_lon)
      [] k = "zoom" -> Num(default_zoom)
      [] k = "base" -> default_base_layer

\* C5 as claimed: construction sets each of the four fields to the URL's
\* string for its key whenever the key is present, whatever its value, and to
\* the default only when the key is absent; afterwards no write is pending
\* and the URL is unchanged.
C5_UrlValueWheneverPresent ==
    [][\A dlat, dlon, dzoom \in DefaultNums :
          constructor(dlat, dlon, dzoom) =>
              /\ \A k \in Reserved :
                    this'[k] = IF k \in DOMAIN location
                               THEN Str(location[k])
                               ELSE DefaultOf(k, dlat, dlon, dzoom)
              /\ this'["timeout"] = Null
              /\ timers' = {}
              /\ location' = location]_vars

\* C5 as amended: construction sets each of the four fields to the URL's
\* string for its key whenever the key is present with a non-empty value, and
\* to the default when the key is absent or its value is the empty string;
\* afterwards no write is pending and the URL is unchanged.
C5_UrlValueWhenNonEmpty ==
    [][\A dlat, dlon, dzoom \in DefaultNums :
          constructor(dlat, dlon, dzoom) =>
              /\ \A k \in Reserved :
                    this'[k] = IF k \in DOMAIN location /\ location[k] # ""
                               THEN Str(location[k])
                               ELSE DefaultOf(k, dlat, dlon, dzoom)
              /\ this'["timeout"] = Null
              /\ timers' = {}
              /\ location' = location]_vars

\* A constructed controller that kept the string "0" for lat, fell back to the
\* default for the empty lon and for the absent base.
W5_Constructed ==
    /\ this["timeout"] = Null
    /\ "lat" \in DOMAIN location /\ location["lat"] = "0"
    /\ this["lat"] = Str("0")
    /\ "lon" \in DOMAIN location /\ location["lon"] = ""
    /\ this["lon"] = Num(1)
    /\ "base" \notin DOMAIN location
    /\ this["base"] = default_base_layer

\* C6: setParams(map) assigns every pair of the map and requests one history
\* update after all assignments, for a map of any size: after the call
\* exactly one write is pending, and the URL it will write carries the values
\* that the map gives to lat, lon, zoom and base.
C6_SetParamsOneWrite ==
    [][\A m \in ParamMaps :
          change_params(m) =>
              /\ Cardinality(timers') = 1
              /\ \A t \in timers', i \in 1..Len(m) :
                    (m[i][1] \in Reserved /\ m[i][2].k = "value") =>
                        /\ this'[m[i][1]] = m[i][2].v
                        /\ t.url[m[i][1]] = JSToString(m[i][2].v, heap')]_vars

\* C7: addToList(field, v) on a field that was never set leaves the field
\* equal to [v] and schedules a history write (and a second such call leaves
\* it so).
C7_AddToUnsetField ==
    [][\A p \in ListNames, v \in ListItems :
          (this[p] = Undefined /\ add_to_list(p, v)) =>
              /\ ~thrown'
              /\ IsArr(this'[p])
              /\ heap'[this'[p].r] = <<v>>
              /\ \E t \in timers' : t.id = nextId]_vars

\* C8: removeFromList(field, v) on a list-valued field leaves the list
\* without any occurrence of v, the other elements in their order (the list
\* unchanged when v is not in it), and schedules a history write, any write
\* pending before being cancelled.
C8_RemoveFromList ==
    [][\A p \in ListNames, v \in ListItems :
          (IsArr(this[p]) /\ remove_from_list(p, v)) =>
              /\ ~thrown'
              /\ IsArr(this'[p])
              /\ heap'[this'[p].r] = Filter(heap[this[p].r], v)
              /\ OneScheduled]_vars

\* C9: setParam with updateHistory false assigns the field and does nothing
\* else (no write scheduled, a pending write neither cancelled nor postponed,
\* the URL unchanged); setParam with updateHistory true cancels any pending
\* write and schedules exactly one.
C9_SetParamFrame ==
    [][\A pa \in ParamArgs, c \in BOOLEAN :
          change_param(pa[1], pa[2], c) =>
              IF c
              THEN OneScheduled
              ELSE /\ timers' = timers
                   /\ location' = location
                   /\ \A q \in Props \ {pa[1]} : this'[q] = this[q]]_vars

\* C10: a URL write changes only the keys lat, lon, zoom and base: every
\* other query parameter has the value it had immediately before the write,
\* and no other key is added.
C10_WriteKeepsOtherKeys ==
    [][TimerFires =>
          /\ \A k \in DOMAIN location \ Reserved :
                k \in DOMAIN location' /\ location'[k] = location[k]
          /\ DOMAIN location' \subseteq DOMAIN location \cup Reserved]_vars

\* C11: no mutator call ends in an error, whatever field name and value it
\* is given: in every reachable state the most recent call completed without
\* raising.
C11_NoMutatorThrows == ~thrown

\* C12: every URL write replaces the current history entry: in every
\* reachable state the session history has as many entries as at
\* construction, the entries before the current one are untouched, and the
\* current entry is the page URL.
C12_HistoryLengthKept ==
    /\ Len(entries) = Len(PreviousEntries) + 1
    /\ SubSeq(entries, 1, Len(PreviousEntries)) = PreviousEntries
    /\ entries[Len(entries)] = location

\* A scheduled write has run: the current entry carries the new lat, the
\* entry before it is the page visited earlier.
W12_WriteReplaced ==
    /\ burstWrites = 1
    /\ entries[Len(entries)]["lat"] = "10"
    /\ entries[1] = PreviousEntries[1]
    /\ Len(entries) = 2

\* C13: randomClusterColor() returns only elements of the fixed
\* seven-element palette; for every value of the random source in [0, 1) the
\* computed index lies in 0..6; and each of the seven palette elements is the
\* result for some value of the random source.
C13_ColorFromPalette ==
    /\ Len(map_detections_clusters_colors) = 7
    /\ color # Null =>
          /\ color = randomChoice(map_detections_clusters_colors, random)
          /\ \E i \in 1..7 : color = Str(map_detections_clusters_colors[i])
    /\ \A r \in Randoms : Index(map_detections_clusters_colors, r) \in 0..6
    /\ \A i \in 1..7 : \E r \in Randoms :
          randomChoice(map_detections_clusters_colors, r) =
              Str(map_detections_clusters_colors[i])

\* The largest value of the random source gave the last colour of the palette.
W13_LastColor ==
    /\ random = Pow2(RandomBits) - 1
    /\ color = Str("#ffff00")

\* The writes that clearTimeout(this.timeout) would cancel: the pending
\* callbacks the handle refers to.
Referred == {t \in timers : t.id = ToHandle(this["timeout"], heap)}

\* C14 as claimed: in every reachable state, the states after a write has
\* fired included, the timer handle is null or refers to exactly one write
\* that is still pending.
C14_HandleNullOrOutstanding ==
    this["timeout"] = Null \/ Cardinality(Referred) = 1

\* C14 as amended: every history-update request sets the timer handle to the
\* handle of the write it schedules, which is then pending with the full
\* delay and is the only write the handle refers to; the firing of a write
\* leaves the handle as it is.
C14_HandleSetByRequest ==
    [][/\ (nextId' # nextId) =>
             /\ this'["timeout"] = Num(nextId)
             /\ Cardinality({t \in timers' : t.id = nextId}) = 1
             /\ \A t \in timers' : t.id = nextId => t.rem = Delay
       /\ TimerFires => this'["timeout"] = this["timeout"]]_vars

\* The write of the first request has run and the handle still names it:
\* nothing is pending and the handle is not null.
W14_SpentHandle ==
    /\ this["timeout"] = Num(1)
    /\ nextId = 2
    /\ timers = {}
    /\ burstWrites = 1
    /\ Referred = {}

\* The URL carries the values of the most recent history-update request.
Written == \A k \in Reserved : k \in DOMAIN location /\ location[k] = lastReq[k]

\* C15: under fair progress of the timer queue, every history-update request
\* is followed by a URL write once requests stop: after the n-th request,
\* either a further request is made, or eventually the URL has been written
\* with the values of that request and no write is pending.
C15_RequestEventuallyWritten ==
    \A n \in 1..MaxTimers :
        (nextId = n + 1) ~> (nextId # n + 1 \/ (timers = {} /\ Written))

\* The last request the model admits has been served: its values, lat 10 and
\* zoom 5, are in the URL together with the keys the page was loaded without,
\* and the queue is empty.
W15_LastRequestServed ==
    /\ nextId = MaxTimers + 1
    /\ timers = {}
    /\ Written
    /\ lastReq["zoom"] = "5"
    /\ "lon" \in DOMAIN location

\* C16: no URL write happens less than 300 time units after the most recent
\* history-update request: when a write fires, the write scheduled by the
\* most recent request, if it is still pending, has waited its full delay.
C16_NoWriteBeforeDelay ==
    [][TimerFires => \A t \in timers : t.id = nextId - 1 => t.rem = 0]_vars

\* C17: the content of a pending write is fixed when the history update is
\* requested: the URL that a write installs carries, for lat, lon, zoom and
\* base, the values the fields had at the most recent history-update request,
\* whatever setParam calls with updateHistory false were made since.
C17_WriteInstallsRequested ==
    [][TimerFires =>
          \A k \in Reserved : k \in DOMAIN location' /\ location'[k] = lastReq[k]]_vars

\* C18: addToList(field, v) on a list-valued field that does not contain v
\* leaves the old list with v appended as its last element; when the list
\* contains v it is unchanged; either way the call completes and a history
\* write is scheduled.
C18_AddToList ==
    [][\A p \in ListNames, v \in ListItems :
          (IsArr(this[p]) /\ add_to_list(p, v)) =>
              /\ IsArr(this'[p])
              /\ heap'[this'[p].r] = IF \E i \in 1..Len(heap[this[p].r]) : heap[this[p].r][i] = v
                                     THEN heap[this[p].r]
                                     ELSE Append(heap[this[p].r], v)
              /\ ~thrown'
              /\ \E t \in timers' : t.id = nextId /\ t.rem = Delay]_vars

\* The data fields of the controller: every property but the timer handle
\* and the method.
DataFields == Props \ {"timeout", "_change_history"}

\* The step leaves the field q with the value it had; for a list, with the
\* same elements in the same order.
SameValue(q) ==
    /\ IsArr(this'[q]) = IsArr(this[q])
    /\ IF IsArr(this[q])
       THEN heap'[this'[q].r] = heap[this[q].r]
       ELSE this'[q] = this[q]

\* The step changes no data field outside names, and not the URL.
FrameExcept(names) ==
    /\ \A q \in DataFields \ names : SameValue(q)
    /\ location' = location
    /\ entries' = entries

\* C19: addToList, removeFromList and setParam change no data field of the
\* controller other than the one they name, setParams changes no field whose
\* name is not a key of its map, and none of them changes the URL in the call.
C19_MutatorFrame ==
    [][/\ \A p \in ListNames, v \in ListItems :
             (add_to_list(p, v) \/ remove_from_list(p, v)) => FrameExcept({p})
       /\ \A pa \in ListArgs, c \in BOOLEAN :
             change_param(pa[1], pa[2], c) => FrameExcept({pa[1]})
       /\ \A m \in ListMaps :
             change_params(m) => FrameExcept({m[i][1] : i \in 1..Len(m)})]_vars

====
